---- MODULE Spec2Model ----
(***************************************************************************)
(* autoinstall-npm: scan .js/.mjs files for imported packages, probe npm   *)
(* for each one and install the missing ones.                              *)
(*                                                                         *)
(* Two programs of the repository are modelled side by side:               *)
(*   persisted = FALSE  src/autoinstall-npm.mjs (v1.1.0): run-scoped       *)
(*                      ledger (installedPackages, checkedPackages) and a  *)
(*                      locality check (isLocalFile);                      *)
(*   persisted = TRUE   src/unnamed/part_000 (v1.0.0): ledger loaded from  *)
(*                      and saved to the sidecar installed_packages.txt,   *)
(*                      no locality check.  Its definitions carry the      *)
(*                      suffix _v1.                                        *)
(* Every await of the code is one step of the model.                       *)
(***************************************************************************)
EXTENDS Naturals, Sequences, FiniteSets, TLC

\* ---- bounds ----
MaxEntries == 2          \* directory entries returned by readdir
MaxRefs == 2             \* import/require statements in one document
MaxLedger == 3           \* entries of a ledger written and read back in SpecRoundTrip

\* ---- input alphabets ----
Specifiers == {"chalk", "./local.js"}
Shapes == {"named", "default", "require", "dynamic"}
Extensions == {".js", ".mjs", ".txt"}
Answers == {"y", "Y", "yes", "no", ""}
NL == "\n"
NoPkg == "-"

Refs == [shape : Shapes, spec : Specifiers]
Docs == UNION {[1..n -> Refs] : n \in 0..MaxRefs}
EntryLists == UNION {[1..n -> Extensions] : n \in 0..MaxEntries}

Range(s) == {s[i] : i \in 1..Len(s)}

VARIABLES
    persisted, argFile, argDir, confirm,      \* which program, argv
    localPaths, npmInstalled, sidecar,        \* file system, npm, sidecar file
    pc, jsFiles, fileIdx,
    requiredPackages, rIdx, packagesToInstall, pIdx,
    installedPackages, checkedPackages,
    lastOp, lastLog,                          \* last external operation, last console message
    probeCount, promptCount, installCount,    \* external operations of the current file, per specifier
    \* of the current file: the ledger when it started, the specifiers in its
    \* text, the installs that succeeded before it
    ledgerAtStart, mentioned, okEarlier,
    processed, referencedEarlier,
    okInstalls, lastSave, npmAtStart,
    sidecarAtStart,                           \* the specifiers in the sidecar when the run began
    positiveProbes,                           \* specifiers whose probe came back positive in this run
    running,                                  \* external operations started and not yet settled
    openFiles                                 \* files whose checkAndInstallPackages call has not returned

config == <<persisted, argFile, argDir, confirm, localPaths, npmAtStart, sidecarAtStart>>
locals == <<requiredPackages, rIdx, packagesToInstall, pIdx>>
ledgerVars == <<installedPackages, checkedPackages>>
counts == <<probeCount, promptCount, installCount>>
fileHist == <<ledgerAtStart, mentioned, okEarlier>>
awaited == <<running, openFiles>>
vars == <<persisted, argFile, argDir, confirm, localPaths, npmInstalled, sidecar,
          pc, jsFiles, fileIdx, requiredPackages, rIdx, packagesToInstall, pIdx,
          installedPackages, checkedPackages, lastOp, lastLog,
          probeCount, promptCount, installCount,
          ledgerAtStart, mentioned, okEarlier, processed, referencedEarlier,
          okInstalls, lastSave, npmAtStart, sidecarAtStart,
          positiveProbes, running, openFiles>>

\* ---- JavaScript Set (insertion ordered) ----
SetAdd(s, x) == IF x \in Range(s) THEN s ELSE Append(s, x)

RECURSIVE SetFrom(_)
SetFrom(arr) ==
    IF arr = <<>> THEN <<>>
    ELSE SetAdd(SetFrom(SubSeq(arr, 1, Len(arr) - 1)), arr[Len(arr)])

Ledger == Range(installedPackages) \cup checkedPackages

Op(o, p, r) == [op |-> o, pkg |-> p, res |-> r]
Log(k, p) == [kind |-> k, pkg |-> p]
Bump(f, s) == [f EXCEPT ![s] = @ + 1]

\* ---- SpecifierExtractor / LocalityClassifier (autoinstall-npm.mjs) ----
\* A document is the sequence of its import/require statements.  Each regular
\* expression is run over the whole text in turn; importDefaultRegex also
\* matches a named import ([^'"]* spans the braces).
Matches(doc, shapes) ==
    LET hit(r) == r.shape \in shapes
        sel == SelectSeq(doc, hit)
    IN [i \in 1..Len(sel) |-> sel[i].spec]

\* Mutant: the existence check always fails (every specifier is external).
isLocalFile_never(filePath, paths) == FALSE

isLocalFile(filePath, paths) == filePath \in paths

NotLocal(arr, paths) ==
    LET ext(s) == ~isLocalFile(s, paths) IN SelectSeq(arr, ext)

findRequiredPackages(doc, paths) ==
    SetFrom(NotLocal(Matches(doc, {"named"}), paths)
            \o NotLocal(Matches(doc, {"named", "default"}), paths)
            \o NotLocal(Matches(doc, {"require"}), paths)
            \o NotLocal(Matches(doc, {"dynamic"}), paths))

\* part_000: importRegex (any import ... from), then requireRegex; no locality
\* check and no dynamic import.
findRequiredPackages_v1(doc) ==
    SetFrom(Matches(doc, {"named", "default"}) \o Matches(doc, {"require"}))

\* ---- PackageRegistryProbe ----
\* Outcomes of `npm list pkg`: exit 0 with pkg in the output, exit 0 without
\* it, or a non-zero exit (execShellCommand rejects).
ProbeOutcomes(pkg, npm) ==
    IF pkg \in npm THEN {"positive", "error"} ELSE {"negative", "error"}

\* Mutant: isPackageInstalled without its memo.
checkedHas_never(pkg, checked) == FALSE

\* isPackageInstalled, line 114: the memo of positive probes.
checkedHas(pkg, checked) == pkg \in checked

\* Mutant: the catch block answers true.
isInstalledResult_errorMeansInstalled(outcome) == outcome # "negative"

\* isPackageInstalled, lines 118-127: value returned after the probe ran.
isInstalledResult(outcome) == outcome = "positive"

\* Mutant: the `if (isInstalled)` guard is dropped, every probe that exits 0
\* is recorded.
checkedAfterProbe_unguarded(checked, pkg, outcome) ==
    IF outcome # "error" THEN checked \cup {pkg} ELSE checked

\* isPackageInstalled, lines 120-123: checkedPackages after the probe ran.
checkedAfterProbe(checked, pkg, outcome) ==
    IF isInstalledResult(outcome) THEN checked \cup {pkg} ELSE checked

\* Mutant: the probe's answer is ignored when queueing.
needsInstall_ignoresProbe(inLedger, probeSaysInstalled) == ~inLedger

\* checkAndInstallPackages, line 163: the condition that queues pkg.
needsInstall(inLedger, probeSaysInstalled) == ~inLedger /\ ~probeSaysInstalled

\* ---- promptUser ----
toLowerCase(a) == CASE a = "Y" -> "y" [] OTHER -> a
\* Mutant: any non-empty answer counts as consent.
promptUser_nonEmpty(answer) == answer # ""

promptUser(answer) == toLowerCase(answer) = "y"

\* ---- InstallationLedger sidecar (part_000) ----
\* The file text is a sequence of tokens: specifiers and NL.
RECURSIVE join(_)
join(arr) ==
    IF Len(arr) = 0 THEN <<>>
    ELSE IF Len(arr) = 1 THEN arr
    ELSE <<arr[1], NL>> \o join(Tail(arr))

RECURSIVE split(_)
split(text) ==
    IF \E i \in 1..Len(text) : text[i] = NL
    THEN LET i == CHOOSE k \in 1..Len(text) :
                      /\ text[k] = NL
                      /\ \A j \in 1..(k - 1) : text[j] # NL
         IN <<SubSeq(text, 1, i - 1)>> \o split(SubSeq(text, i + 1, Len(text)))
    ELSE <<text>>

NonEmpty(seg) == seg # <<>>

\* Mutant: only the first line of the file is read.
loadInstalledPackages_firstLine(file) ==
    IF ~file.exists THEN <<>>
    ELSE LET lines == SelectSeq(split(file.text), NonEmpty)
         IN IF lines = <<>> THEN <<>> ELSE <<lines[1][1]>>

\* loadInstalledPackages: a missing or unreadable file gives the empty set.
loadInstalledPackages(file) ==
    IF ~file.exists THEN <<>>
    ELSE LET lines == SelectSeq(split(file.text), NonEmpty)
         IN SetFrom([i \in 1..Len(lines) |-> lines[i][1]])

\* Mutant: only the newest entry is written.
saveInstalledPackages_newestOnly(packages) ==
    [exists |-> TRUE,
     text |-> IF packages = <<>> THEN <<>> ELSE <<packages[Len(packages)]>>]

\* saveInstalledPackages: the text written.
saveInstalledPackages(packages) == [exists |-> TRUE, text |-> join(packages)]

InitialSidecars ==
    { [exists |-> FALSE, text |-> <<>>],
      [exists |-> TRUE, text |-> <<>>],
      [exists |-> TRUE, text |-> <<"chalk", NL>>],
      [exists |-> TRUE, text |-> <<"./local.js", NL, NL, "chalk">>] }

ZeroCount == [s \in Specifiers |-> 0]

Init ==
    /\ persisted \in BOOLEAN
    /\ argFile \in BOOLEAN
    /\ argDir \in BOOLEAN
    /\ confirm \in BOOLEAN
    /\ npmInstalled \in SUBSET Specifiers
    /\ npmAtStart = npmInstalled
    \* part_000 never consults the file system about a specifier;
    \* autoinstall-npm.mjs has no sidecar.
    /\ IF persisted
         THEN localPaths = {} /\ sidecar \in InitialSidecars
         ELSE localPaths \in SUBSET Specifiers
              /\ sidecar = [exists |-> FALSE, text |-> <<>>]
    /\ sidecarAtStart = {sidecar.text[i] : i \in 1..Len(sidecar.text)} \ {NL}
    /\ pc = "main"
    /\ jsFiles = <<>>
    /\ fileIdx = 1
    /\ requiredPackages = <<>>
    /\ rIdx = 1
    /\ packagesToInstall = <<>>
    /\ pIdx = 1
    /\ installedPackages = <<>>
    /\ checkedPackages = {}
    /\ lastOp = Op("none", NoPkg, "none")
    /\ lastLog = Log("none", NoPkg)
    /\ probeCount = ZeroCount
    /\ promptCount = ZeroCount
    /\ installCount = ZeroCount
    /\ ledgerAtStart = {}
    /\ mentioned = {}
    /\ okEarlier = {}
    /\ processed = {}
    /\ referencedEarlier = {}
    /\ okInstalls = {}
    /\ lastSave = "none"
    /\ positiveProbes = {}
    /\ running = {}
    /\ openFiles = {}

\* ---- main: the dispatch on argv ----
MainFile ==
    /\ pc = "main"
    /\ argFile
    /\ jsFiles' = <<1>>
    /\ fileIdx' = 1
    /\ lastLog' = Log("processing", NoPkg)
    /\ pc' = IF persisted THEN "load" ELSE "readFile"
    /\ openFiles' = IF persisted THEN openFiles ELSE openFiles \cup {1}
    /\ UNCHANGED <<config, npmInstalled, sidecar, locals, ledgerVars, lastOp, counts,
                   fileHist, processed, referencedEarlier, okInstalls, lastSave,
                   positiveProbes, running>>

\* Mutant: `if (dirPath)` in place of `else if (dirPath)`.
MainDirectory_ignoresFile ==
    /\ pc = "main"
    /\ argDir
    /\ pc' = "readdir"
    /\ UNCHANGED <<config, npmInstalled, sidecar, jsFiles, fileIdx, locals, ledgerVars,
                   lastOp, lastLog, counts, fileHist, processed, referencedEarlier,
                   okInstalls, lastSave,
                   positiveProbes, awaited>>

\* main, lines 250-256: the directory is looked at only when no file is given.
MainDirectory ==
    /\ pc = "main"
    /\ ~argFile
    /\ argDir
    /\ pc' = "readdir"
    /\ UNCHANGED <<config, npmInstalled, sidecar, jsFiles, fileIdx, locals, ledgerVars,
                   lastOp, lastLog, counts, fileHist, processed, referencedEarlier,
                   okInstalls, lastSave,
                   positiveProbes, awaited>>

MainUsage ==
    /\ pc = "main"
    /\ ~argFile
    /\ ~argDir
    /\ pc' = "usage"
    /\ lastLog' = Log("usage", NoPkg)
    /\ UNCHANGED <<config, npmInstalled, sidecar, jsFiles, fileIdx, locals, ledgerVars,
                   lastOp, counts, fileHist, processed, referencedEarlier,
                   okInstalls, lastSave,
                   positiveProbes, awaited>>

\* ---- processDirectory ----
endsWithJs(ext) == ext = ".js" \/ ext = ".mjs"

filterJs(entries) ==
    LET idx == [i \in 1..Len(entries) |-> i]
        keep(i) == endsWithJs(entries[i])
    IN SelectSeq(idx, keep)

ReadDir ==
    /\ pc = "readdir"
    /\ \E entries \in EntryLists : jsFiles' = filterJs(entries)
    /\ fileIdx' = 1
    /\ lastOp' = Op("readdir", NoPkg, "ok")
    /\ pc' = IF persisted THEN "load" ELSE "nextFile"
    /\ UNCHANGED <<config, npmInstalled, sidecar, locals, ledgerVars, lastLog, counts,
                   fileHist, processed, referencedEarlier, okInstalls, lastSave,
                   positiveProbes, awaited>>

\* readdir rejects: processDirectory rejects and main's .catch prints the error.
ReadDirFail ==
    /\ pc = "readdir"
    /\ lastOp' = Op("readdir", NoPkg, "fail")
    /\ lastLog' = Log("error", NoPkg)
    /\ pc' = "failed"
    /\ UNCHANGED <<config, npmInstalled, sidecar, jsFiles, fileIdx, locals, ledgerVars,
                   counts, fileHist, processed, referencedEarlier, okInstalls, lastSave,
                   positiveProbes, awaited>>

\* part_000: the ledger is loaded from the sidecar before the first file.
LoadLedger_v1 ==
    /\ pc = "load"
    /\ \/ installedPackages' = loadInstalledPackages(sidecar)
       \/ sidecar.exists /\ installedPackages' = <<>>        \* unreadable
    /\ lastOp' = Op("load", NoPkg, "ok")
    /\ pc' = IF argFile THEN "readFile" ELSE "nextFile"
    /\ openFiles' = IF argFile THEN openFiles \cup {fileIdx} ELSE openFiles
    /\ UNCHANGED <<config, npmInstalled, sidecar, jsFiles, fileIdx, locals,
                   checkedPackages, lastLog, counts, fileHist, processed,
                   referencedEarlier, okInstalls, lastSave,
                   positiveProbes, running>>

\* Mutant: the two Sets are created inside the loop, one ledger per file.
NextFile_freshLedger ==
    /\ pc = "nextFile"
    /\ fileIdx <= Len(jsFiles)
    /\ lastLog' = Log("processing", NoPkg)
    /\ installedPackages' = <<>>
    /\ checkedPackages' = {}
    /\ pc' = "readFile"
    /\ openFiles' = openFiles \cup {fileIdx}
    /\ UNCHANGED <<config, npmInstalled, sidecar, jsFiles, fileIdx, locals,
                   lastOp, counts, fileHist, processed, referencedEarlier,
                   okInstalls, lastSave,
                   positiveProbes, running>>

\* for (const file of jsFiles): the next file, or the end of the loop.
NextFile ==
    /\ pc = "nextFile"
    /\ fileIdx <= Len(jsFiles)
    /\ lastLog' = Log("processing", NoPkg)
    /\ pc' = "readFile"
    /\ openFiles' = openFiles \cup {fileIdx}
    /\ UNCHANGED <<config, npmInstalled, sidecar, jsFiles, fileIdx, locals, ledgerVars,
                   lastOp, counts, fileHist, processed, referencedEarlier,
                   okInstalls, lastSave,
                   positiveProbes, running>>

DirectoryDone ==
    /\ pc = "nextFile"
    /\ fileIdx > Len(jsFiles)
    /\ lastLog' = Log("finished", NoPkg)
    /\ pc' = "done"
    /\ UNCHANGED <<config, npmInstalled, sidecar, jsFiles, fileIdx, locals, ledgerVars,
                   lastOp, counts, fileHist, processed, referencedEarlier,
                   okInstalls, lastSave,
                   positiveProbes, awaited>>

\* ---- checkAndInstallPackages: reading the document ----
StartReconcile(doc, required) ==
    /\ requiredPackages' = required
    /\ rIdx' = 1
    /\ packagesToInstall' = <<>>
    /\ pIdx' = 1
    /\ ledgerAtStart' = Ledger
    /\ mentioned' = {doc[i].spec : i \in 1..Len(doc)}
    /\ processed' = processed \cup {fileIdx}
    /\ lastOp' = Op("readFile", NoPkg, "ok")
    /\ pc' = "reconcile"
    /\ UNCHANGED <<config, npmInstalled, sidecar, jsFiles, fileIdx, ledgerVars, lastLog,
                   counts, okEarlier, referencedEarlier, okInstalls, lastSave,
                   positiveProbes, awaited>>

ReadDocument ==
    /\ pc = "readFile"
    /\ ~persisted
    /\ \E doc \in Docs : StartReconcile(doc, findRequiredPackages(doc, localPaths))

ReadDocument_v1 ==
    /\ pc = "readFile"
    /\ persisted
    /\ \E doc \in Docs : StartReconcile(doc, findRequiredPackages_v1(doc))

\* fs.readFile rejects: nothing between findRequiredPackages and main's .catch
\* handles the rejection, so the run ends there.
ReadDocumentFail ==
    /\ pc = "readFile"
    /\ lastOp' = Op("readFile", NoPkg, "fail")
    /\ lastLog' = Log("error", NoPkg)
    /\ pc' = "failed"
    /\ openFiles' = openFiles \ {fileIdx}
    /\ UNCHANGED <<config, npmInstalled, sidecar, jsFiles, fileIdx, locals, ledgerVars,
                   counts, fileHist, processed, referencedEarlier, okInstalls, lastSave,
                   positiveProbes, running>>

\* ---- checkAndInstallPackages: the reconciliation loop ----
Reconciling == pc = "reconcile" /\ rIdx <= Len(requiredPackages)
CurrentRequired == requiredPackages[rIdx]

\* Mutant: unshift in place of push.
queue_front(list, pkg, inLedger, probeSaysInstalled) ==
    IF needsInstall(inLedger, probeSaysInstalled) THEN <<pkg>> \o list ELSE list

\* checkAndInstallPackages, lines 162-166: packagesToInstall.push(pkg).
queue(list, pkg, inLedger, probeSaysInstalled) ==
    IF needsInstall(inLedger, probeSaysInstalled) THEN Append(list, pkg) ELSE list

\* pkg is in installedPackages (line 163) or in checkedPackages (line 114):
\* no external process is started.
ReconcileKnown ==
    /\ Reconciling
    /\ ~persisted
    /\ \/ CurrentRequired \in Range(installedPackages)
       \/ checkedHas(CurrentRequired, checkedPackages)
    /\ rIdx' = rIdx + 1
    /\ UNCHANGED <<config, npmInstalled, sidecar, pc, jsFiles, fileIdx, requiredPackages,
                   packagesToInstall, pIdx, ledgerVars, lastOp, lastLog, counts,
                   fileHist, processed, referencedEarlier, okInstalls, lastSave,
                   positiveProbes, awaited>>

Probe ==
    /\ Reconciling
    /\ ~persisted
    /\ CurrentRequired \notin Range(installedPackages)
    /\ ~checkedHas(CurrentRequired, checkedPackages)
    /\ \E outcome \in ProbeOutcomes(CurrentRequired, npmInstalled) :
        /\ checkedPackages' = checkedAfterProbe(checkedPackages, CurrentRequired, outcome)
        /\ packagesToInstall' = queue(packagesToInstall, CurrentRequired, FALSE,
                                      isInstalledResult(outcome))
        /\ lastOp' = Op("probe", CurrentRequired, outcome)
        /\ positiveProbes' = IF outcome = "positive"
                                THEN positiveProbes \cup {CurrentRequired}
                                ELSE positiveProbes
    /\ probeCount' = Bump(probeCount, CurrentRequired)
    /\ rIdx' = rIdx + 1
    /\ UNCHANGED <<config, npmInstalled, sidecar, pc, jsFiles, fileIdx, requiredPackages,
                   pIdx, installedPackages, lastLog, promptCount, installCount,
                   fileHist, processed, referencedEarlier, okInstalls, lastSave,
                   awaited>>

ReconcileKnown_v1 ==
    /\ Reconciling
    /\ persisted
    /\ CurrentRequired \in Range(installedPackages)
    /\ rIdx' = rIdx + 1
    /\ UNCHANGED <<config, npmInstalled, sidecar, pc, jsFiles, fileIdx, requiredPackages,
                   packagesToInstall, pIdx, ledgerVars, lastOp, lastLog, counts,
                   fileHist, processed, referencedEarlier, okInstalls, lastSave,
                   positiveProbes, awaited>>

\* part_000: isPackageInstalled keeps no memo; a positive probe is not recorded.
Probe_v1 ==
    /\ Reconciling
    /\ persisted
    /\ CurrentRequired \notin Range(installedPackages)
    /\ \E outcome \in ProbeOutcomes(CurrentRequired, npmInstalled) :
        /\ packagesToInstall' = queue(packagesToInstall, CurrentRequired, FALSE,
                                      isInstalledResult(outcome))
        /\ lastOp' = Op("probe", CurrentRequired, outcome)
        /\ positiveProbes' = IF outcome = "positive"
                                THEN positiveProbes \cup {CurrentRequired}
                                ELSE positiveProbes
    /\ probeCount' = Bump(probeCount, CurrentRequired)
    /\ rIdx' = rIdx + 1
    /\ UNCHANGED <<config, npmInstalled, sidecar, pc, jsFiles, fileIdx, requiredPackages,
                   pIdx, ledgerVars, lastLog, promptCount, installCount,
                   fileHist, processed, referencedEarlier, okInstalls, lastSave,
                   awaited>>

Reconciled == pc = "reconcile" /\ rIdx > Len(requiredPackages)

\* Mutant: the message is logged but the function does not return; the
\* table is printed and the (empty) install loop is entered.
NothingToInstall_noReturn ==
    /\ Reconciled
    /\ Len(packagesToInstall) = 0
    /\ lastLog' = Log("table", NoPkg)
    /\ pc' = "installLoop"
    /\ UNCHANGED <<config, npmInstalled, sidecar, jsFiles, fileIdx, locals, ledgerVars,
                   lastOp, counts, fileHist, processed, referencedEarlier,
                   okInstalls, lastSave,
                   positiveProbes, awaited>>

\* if (packagesToInstall.length === 0) { ...; return; }
NothingToInstall ==
    /\ Reconciled
    /\ Len(packagesToInstall) = 0
    /\ lastLog' = Log("noop", NoPkg)
    /\ pc' = "returned"
    /\ UNCHANGED <<config, npmInstalled, sidecar, jsFiles, fileIdx, locals, ledgerVars,
                   lastOp, counts, fileHist, processed, referencedEarlier,
                   okInstalls, lastSave,
                   positiveProbes, awaited>>

\* console.table(...), then the install loop starts.
StartInstalls ==
    /\ Reconciled
    /\ Len(packagesToInstall) # 0
    /\ lastLog' = Log("table", NoPkg)
    /\ pIdx' = 1
    /\ pc' = "installLoop"
    /\ UNCHANGED <<config, npmInstalled, sidecar, jsFiles, fileIdx, requiredPackages, rIdx,
                   packagesToInstall, ledgerVars, lastOp, counts, fileHist,
                   processed, referencedEarlier, okInstalls, lastSave,
                   positiveProbes, awaited>>

\* ---- checkAndInstallPackages: the install loop ----
InLoop == pc = "installLoop" /\ pIdx <= Len(packagesToInstall)
CurrentInstall == packagesToInstall[pIdx]

\* Mutant: a declined specifier is remembered in the ledger.
Prompt_remembersDecline ==
    /\ InLoop
    /\ confirm
    /\ \E answer \in Answers :
        /\ lastOp' = Op("prompt", CurrentInstall, answer)
        /\ IF promptUser(answer)
             THEN /\ pc' = "install"
                  /\ UNCHANGED <<pIdx, lastLog, installedPackages>>
             ELSE /\ lastLog' = Log("skipped", CurrentInstall)
                  /\ installedPackages' = SetAdd(installedPackages, CurrentInstall)
                  /\ pIdx' = pIdx + 1
                  /\ pc' = "installLoop"
    /\ promptCount' = Bump(promptCount, CurrentInstall)
    /\ UNCHANGED <<config, npmInstalled, sidecar, jsFiles, fileIdx, requiredPackages, rIdx,
                   packagesToInstall, checkedPackages, probeCount, installCount,
                   fileHist, processed, referencedEarlier, okInstalls, lastSave,
                   positiveProbes, awaited>>

\* if (promptForConfirmation) { const install = await promptUser(...); ... }
Prompt ==
    /\ InLoop
    /\ confirm
    /\ \E answer \in Answers :
        /\ lastOp' = Op("prompt", CurrentInstall, answer)
        /\ IF promptUser(answer)
             THEN /\ pc' = "install"
                  /\ UNCHANGED <<pIdx, lastLog>>
             ELSE /\ lastLog' = Log("skipped", CurrentInstall)
                  /\ pIdx' = pIdx + 1
                  /\ pc' = "installLoop"
    /\ promptCount' = Bump(promptCount, CurrentInstall)
    /\ UNCHANGED <<config, npmInstalled, sidecar, jsFiles, fileIdx, requiredPackages, rIdx,
                   packagesToInstall, ledgerVars, probeCount, installCount,
                   fileHist, processed, referencedEarlier, okInstalls, lastSave,
                   positiveProbes, awaited>>

Installing == (InLoop /\ ~confirm) \/ pc = "install"

Running(op, pkg) == [op |-> op, pkg |-> pkg]

\* Mutant: execShellCommand is called without await, the loop goes on while
\* the command runs.
StartInstall_notAwaited ==
    /\ Installing
    /\ lastLog' = Log("installing", CurrentInstall)
    /\ running' = running \cup {Running("install", CurrentInstall)}
    /\ pIdx' = pIdx + 1
    /\ pc' = "installLoop"
    /\ UNCHANGED <<config, npmInstalled, sidecar, jsFiles, fileIdx, requiredPackages,
                   rIdx, packagesToInstall, ledgerVars, lastOp, counts, fileHist,
                   processed, referencedEarlier, okInstalls, lastSave,
                   positiveProbes, openFiles>>

\* console.log(`Installing ${pkg}...`); await execShellCommand(`sudo npm
\* install ${pkg}`): the command is started and the function waits for it.
StartInstall ==
    /\ Installing
    /\ lastLog' = Log("installing", CurrentInstall)
    /\ running' = running \cup {Running("install", CurrentInstall)}
    /\ pc' = "installing"
    /\ UNCHANGED <<config, npmInstalled, sidecar, jsFiles, fileIdx, locals, ledgerVars,
                   lastOp, counts, fileHist, processed, referencedEarlier,
                   okInstalls, lastSave, positiveProbes, openFiles>>

InstallRunning == pc = "installing"

\* `sudo npm install pkg` exits 0 (autoinstall-npm.mjs).
InstallOk ==
    /\ InstallRunning
    /\ ~persisted
    /\ running' = running \ {Running("install", CurrentInstall)}
    /\ installedPackages' = SetAdd(installedPackages, CurrentInstall)
    /\ checkedPackages' = checkedPackages \cup {CurrentInstall}
    /\ npmInstalled' = npmInstalled \cup {CurrentInstall}
    /\ okInstalls' = okInstalls \cup {CurrentInstall}
    /\ installCount' = Bump(installCount, CurrentInstall)
    /\ lastOp' = Op("install", CurrentInstall, "ok")
    /\ lastLog' = Log("installed", CurrentInstall)
    /\ pIdx' = pIdx + 1
    /\ pc' = "installLoop"
    /\ UNCHANGED <<config, sidecar, jsFiles, fileIdx, requiredPackages, rIdx,
                   packagesToInstall, probeCount, promptCount, fileHist,
                   processed, referencedEarlier, lastSave,
                   positiveProbes, openFiles>>

\* `sudo npm install pkg` exits 0 (part_000): the save follows.
InstallOk_v1 ==
    /\ InstallRunning
    /\ persisted
    /\ running' = (running \ {Running("install", CurrentInstall)})
                       \cup {Running("save", CurrentInstall)}
    /\ installedPackages' = SetAdd(installedPackages, CurrentInstall)
    /\ npmInstalled' = npmInstalled \cup {CurrentInstall}
    /\ okInstalls' = okInstalls \cup {CurrentInstall}
    /\ installCount' = Bump(installCount, CurrentInstall)
    /\ lastOp' = Op("install", CurrentInstall, "ok")
    /\ lastLog' = Log("installed", CurrentInstall)
    /\ pc' = "save"
    /\ UNCHANGED <<config, sidecar, jsFiles, fileIdx, locals, checkedPackages,
                   probeCount, promptCount, fileHist, processed, referencedEarlier,
                   lastSave,
                   positiveProbes, openFiles>>

\* Mutant: the specifier is recorded before the command's exit is known.
InstallFail_recordsAnyway ==
    /\ pc = "installing"
    /\ running' = running \ {Running("install", packagesToInstall[pIdx])}
    /\ installedPackages' = SetAdd(installedPackages, packagesToInstall[pIdx])
    /\ installCount' = Bump(installCount, packagesToInstall[pIdx])
    /\ lastOp' = Op("install", packagesToInstall[pIdx], "fail")
    /\ lastLog' = Log("failed", packagesToInstall[pIdx])
    /\ pIdx' = pIdx + 1
    /\ pc' = "installLoop"
    /\ UNCHANGED <<config, npmInstalled, sidecar, jsFiles, fileIdx, requiredPackages,
                   rIdx, packagesToInstall, checkedPackages, probeCount, promptCount,
                   fileHist, processed, referencedEarlier, okInstalls, lastSave,
                   positiveProbes, openFiles>>

\* The command exits non-zero: the catch reports it and the loop goes on.
InstallFail ==
    /\ InstallRunning
    /\ running' = running \ {Running("install", CurrentInstall)}
    /\ installCount' = Bump(installCount, CurrentInstall)
    /\ lastOp' = Op("install", CurrentInstall, "fail")
    /\ lastLog' = Log("failed", CurrentInstall)
    /\ pIdx' = pIdx + 1
    /\ pc' = "installLoop"
    /\ UNCHANGED <<config, npmInstalled, sidecar, jsFiles, fileIdx, requiredPackages,
                   rIdx, packagesToInstall, ledgerVars, probeCount, promptCount,
                   fileHist, processed, referencedEarlier, okInstalls, lastSave,
                   positiveProbes, openFiles>>

\* await saveInstalledPackages(...) inside the try (part_000).
SaveOk_v1 ==
    /\ pc = "save"
    /\ sidecar' = saveInstalledPackages(installedPackages)
    /\ lastSave' = "ok"
    /\ lastOp' = Op("save", CurrentInstall, "ok")
    /\ running' = running \ {Running("save", CurrentInstall)}
    /\ pIdx' = pIdx + 1
    /\ pc' = "installLoop"
    /\ UNCHANGED <<config, npmInstalled, jsFiles, fileIdx, requiredPackages, rIdx,
                   packagesToInstall, ledgerVars, lastLog, counts, fileHist,
                   processed, referencedEarlier, okInstalls,
                   positiveProbes, openFiles>>

\* Mutant: the catch takes the specifier out of the ledger again.
SaveFail_v1_rollsBack ==
    /\ pc = "save"
    /\ \/ UNCHANGED sidecar
       \/ sidecar' = [exists |-> TRUE, text |-> <<>>]
    /\ installedPackages' = SelectSeq(installedPackages, LAMBDA s : s # packagesToInstall[pIdx])
    /\ lastSave' = "fail"
    /\ lastOp' = Op("save", packagesToInstall[pIdx], "fail")
    /\ lastLog' = Log("failed", packagesToInstall[pIdx])
    /\ pIdx' = pIdx + 1
    /\ pc' = "installLoop"
    /\ running' = running \ {Running("save", packagesToInstall[pIdx])}
    /\ UNCHANGED <<config, npmInstalled, jsFiles, fileIdx, requiredPackages, rIdx,
                   packagesToInstall, checkedPackages, counts, fileHist,
                   processed, referencedEarlier, okInstalls,
                   positiveProbes, openFiles>>

\* fs.writeFile rejects: the file is left as it was (the open failed) or
\* truncated (the write failed); the catch reports a failed install.
SaveFail_v1 ==
    /\ pc = "save"
    /\ \/ UNCHANGED sidecar
       \/ sidecar' = [exists |-> TRUE, text |-> <<>>]
    /\ lastSave' = "fail"
    /\ lastOp' = Op("save", CurrentInstall, "fail")
    /\ lastLog' = Log("failed", CurrentInstall)
    /\ pIdx' = pIdx + 1
    /\ pc' = "installLoop"
    /\ running' = running \ {Running("save", CurrentInstall)}
    /\ UNCHANGED <<config, npmInstalled, jsFiles, fileIdx, requiredPackages, rIdx,
                   packagesToInstall, ledgerVars, counts, fileHist,
                   processed, referencedEarlier, okInstalls,
                   positiveProbes, openFiles>>

\* ---- return from checkAndInstallPackages ----
Returned == pc = "returned" \/ (pc = "installLoop" /\ pIdx > Len(packagesToInstall))

ClearLocals ==
    /\ requiredPackages' = <<>>
    /\ rIdx' = 1
    /\ packagesToInstall' = <<>>
    /\ pIdx' = 1
    /\ probeCount' = ZeroCount
    /\ promptCount' = ZeroCount
    /\ installCount' = ZeroCount
    /\ ledgerAtStart' = {}
    /\ mentioned' = {}
    /\ okEarlier' = okInstalls
    /\ referencedEarlier' = referencedEarlier \cup Range(requiredPackages)
    /\ lastOp' = Op("none", NoPkg, "none")

\* processDirectory: "Finished processing file", then the next file.
FinishFile ==
    /\ Returned
    /\ ~argFile
    /\ ClearLocals
    /\ lastLog' = Log("finishedFile", NoPkg)
    /\ fileIdx' = fileIdx + 1
    /\ pc' = "nextFile"
    /\ openFiles' = openFiles \ {fileIdx}
    /\ UNCHANGED <<config, npmInstalled, sidecar, jsFiles, ledgerVars,
                   processed, okInstalls, lastSave,
                   positiveProbes, running>>

\* main, -f: the .then of checkAndInstallPackages.
FinishSingle ==
    /\ Returned
    /\ argFile
    /\ ClearLocals
    /\ lastLog' = Log("finished", NoPkg)
    /\ pc' = "done"
    /\ openFiles' = openFiles \ {fileIdx}
    /\ UNCHANGED <<config, npmInstalled, sidecar, jsFiles, fileIdx, ledgerVars,
                   processed, okInstalls, lastSave,
                   positiveProbes, running>>

Next ==
    \/ MainFile \/ MainDirectory \/ MainUsage
    \/ ReadDir \/ ReadDirFail \/ LoadLedger_v1 \/ NextFile \/ DirectoryDone
    \/ ReadDocument \/ ReadDocument_v1 \/ ReadDocumentFail
    \/ ReconcileKnown \/ Probe \/ ReconcileKnown_v1 \/ Probe_v1
    \/ NothingToInstall \/ StartInstalls
    \/ Prompt \/ StartInstall \/ InstallOk \/ InstallOk_v1 \/ InstallFail \/ SaveOk_v1 \/ SaveFail_v1
    \/ FinishFile \/ FinishSingle

Spec == Init /\ [][Next]_vars

\* ---- the sidecar written by one run and read by the next (part_000) ----
\* Specifiers the part_000 regexes can capture: non-empty, without a line break.
RoundTripSpecifiers == Specifiers \cup {"lodash", "left-pad"}

\* A Set of specifiers in insertion order, at most MaxLedger of them.
Ledgers ==
    { l \in UNION { [1..n -> RoundTripSpecifiers] : n \in 0..MaxLedger } :
        \A i, j \in 1..Len(l) : i # j => l[i] # l[j] }

InitRoundTrip ==
    /\ persisted = TRUE
    /\ argFile = TRUE
    /\ argDir = FALSE
    /\ confirm = FALSE
    /\ localPaths = {}
    /\ npmInstalled = {}
    /\ npmAtStart = {}
    /\ sidecar \in {[exists |-> FALSE, text |-> <<>>], [exists |-> TRUE, text |-> <<"chalk", NL>>]}
    /\ sidecarAtStart = {}
    /\ installedPackages \in Ledgers
    /\ ledgerAtStart = Range(installedPackages)
    /\ pc = "save"
    /\ jsFiles = <<1>>
    /\ fileIdx = 1
    /\ requiredPackages = <<>>
    /\ rIdx = 1
    /\ packagesToInstall = <<>>
    /\ pIdx = 1
    /\ checkedPackages = {}
    /\ lastOp = Op("none", NoPkg, "none")
    /\ lastLog = Log("none", NoPkg)
    /\ probeCount = ZeroCount
    /\ promptCount = ZeroCount
    /\ installCount = ZeroCount
    /\ mentioned = {}
    /\ okEarlier = {}
    /\ processed = {}
    /\ referencedEarlier = {}
    /\ okInstalls = {}
    /\ lastSave = "none"
    /\ positiveProbes = {}
    /\ running = {}
    /\ openFiles = {}

\* saveInstalledPackages(file, packages): the whole ledger replaces the file.
RoundTripSave ==
    /\ pc = "save"
    /\ sidecar' = saveInstalledPackages(installedPackages)
    /\ lastSave' = "ok"
    /\ lastOp' = Op("save", NoPkg, "ok")
    /\ pc' = "load"
    /\ UNCHANGED <<config, npmInstalled, jsFiles, fileIdx, locals, ledgerVars,
                   lastLog, counts, fileHist, processed, referencedEarlier,
                   okInstalls,
                   positiveProbes, awaited>>

\* loadInstalledPackages(file) of the next run: its ledger is what the file holds.
RoundTripLoad ==
    /\ pc = "load"
    /\ lastSave = "ok"
    /\ installedPackages' = loadInstalledPackages(sidecar)
    /\ lastOp' = Op("load", NoPkg, "ok")
    /\ pc' = "readFile"
    /\ UNCHANGED <<config, npmInstalled, sidecar, jsFiles, fileIdx, locals,
                   checkedPackages, lastLog, counts, fileHist, processed,
                   referencedEarlier, okInstalls, lastSave,
                   positiveProbes, awaited>>

NextRoundTrip == RoundTripSave \/ RoundTripLoad

SpecRoundTrip == InitRoundTrip /\ [][NextRoundTrip]_vars

(***************************************************************************)
(* Claims                                                                   *)
(***************************************************************************)
DirectoryRun == ~argFile /\ argDir
Terminated == pc \in {"done", "failed", "usage"}
ReadFailed == lastOp.op = "readFile" /\ lastOp.res = "fail"

\* C1: in a directory batch, a document whose text cannot be read is the only
\* one that fails: when the run has ended, every other eligible file of the
\* batch, the ones listed after it included, has gone through the pipeline.
C1_OtherFilesStillProcessed ==
    (DirectoryRun /\ Terminated /\ ReadFailed) =>
        \A i \in 1..Len(jsFiles) : i # fileIdx => i \in processed

\* C2: after an install that exits non-zero the specifier is not in the ledger
\* and the loop has moved on to the next specifier; the run is never aborted by it,
\* and when the loop has ended every queued specifier has had its turn.
C2_FailedInstallSkipsOnlyThatSpecifier ==
    /\ (lastOp.op = "install" /\ lastOp.res = "fail") =>
          /\ lastOp.pkg \notin Ledger
          /\ pc \in {"installLoop", "installing"}
          /\ pIdx >= 2
          /\ packagesToInstall[pIdx - 1] = lastOp.pkg
    /\ pc = "failed" => lastOp.op \in {"readFile", "readdir"}
    /\ (pc = "installLoop" /\ Returned) =>
          \A s \in Range(packagesToInstall) :
              IF confirm THEN promptCount[s] = 1 /\ installCount[s] <= 1
                         ELSE installCount[s] = 1

\* A failed install of one specifier was followed by a successful install of a
\* later one.
C2_Witness ==
    /\ pc = "installLoop"
    /\ Returned
    /\ \E i, j \in 1..Len(packagesToInstall) :
          /\ i < j
          /\ installCount[packagesToInstall[i]] = 1
          /\ packagesToInstall[i] \notin Ledger
          /\ installCount[packagesToInstall[j]] = 1
          /\ packagesToInstall[j] \in okInstalls

\* C3: no specifier that was in the ledger when the reconciliation of the
\* current document started is probed (npm list) during that reconciliation.
C3_NoProbeForLedgerEntries ==
    \A s \in ledgerAtStart : probeCount[s] = 0

\* The loop has passed a required specifier that the ledger held only as a
\* checked package, and another specifier was probed in the same pass.
C3_Witness ==
    /\ Reconciled
    /\ \E s \in Range(requiredPackages) \cap ledgerAtStart :
          s \notin Range(installedPackages)
    /\ \E s \in Range(requiredPackages) : probeCount[s] = 1

\* C4 as stated, read in its most favourable setting (the run-scoped ledger of
\* autoinstall-npm.mjs, confirmation disabled): with S not installed at the
\* start, the first file that references S probes and installs S exactly once,
\* and a later file that references S neither probes nor installs it.
C4_SecondFileNeverProbes ==
    \A s \in Specifiers \ npmAtStart :
        (DirectoryRun /\ ~persisted /\ ~confirm /\ Len(jsFiles) = 2 /\ Returned
            /\ s \in Range(requiredPackages)) =>
            /\ (fileIdx = 1 => probeCount[s] = 1 /\ installCount[s] = 1)
            /\ (fileIdx = 2 /\ s \in referencedEarlier =>
                    probeCount[s] = 0 /\ installCount[s] = 0)

\* C4 (amended): with S neither installed nor in the ledger at the start, the
\* first file that references S probes S exactly once and attempts at most one
\* install of S (exactly one without confirmation); once an install of S has
\* succeeded in an earlier file, a later file that references S neither probes
\* nor installs S.
C4_SharedLedgerAfterSuccessfulInstall ==
    \A s \in Specifiers \ npmAtStart :
        /\ (DirectoryRun /\ fileIdx = 1 /\ Returned /\ s \in Range(requiredPackages)
              /\ s \notin ledgerAtStart) =>
              /\ probeCount[s] = 1
              /\ installCount[s] <= 1
              /\ (~confirm => installCount[s] = 1)
        /\ (DirectoryRun /\ fileIdx > 1 /\ s \in okEarlier /\ s \in referencedEarlier) =>
              probeCount[s] = 0 /\ installCount[s] = 0

\* The second file of a directory run has been reconciled: it references a
\* specifier that the first file referenced, probed and installed.
C4_Witness ==
    /\ DirectoryRun
    /\ Len(jsFiles) = 2
    /\ fileIdx = 2
    /\ Returned
    /\ \E s \in Specifiers \ npmAtStart :
          /\ s \in Range(requiredPackages)
          /\ s \in referencedEarlier
          /\ s \in okEarlier
          /\ s \in Ledger

\* C5: a specifier that exists as a path under the document's directory is
\* never in the required or to-install list, never in the ledger, and never
\* the subject of a probe, a prompt or an install.
C5_LocalSpecifierNeverReconciled ==
    \A s \in localPaths :
        /\ s \notin Range(requiredPackages)
        /\ s \notin Range(packagesToInstall)
        /\ s \notin Ledger
        /\ s \notin okInstalls
        /\ probeCount[s] = 0
        /\ promptCount[s] = 0
        /\ installCount[s] = 0
        /\ lastOp.pkg # s

\* A document that names a local path and an external package has been
\* processed to the end, and the external package was installed.
C5_Witness ==
    /\ Returned
    /\ localPaths \cap mentioned # {}
    /\ \E s \in mentioned \ localPaths : installCount[s] = 1 /\ s \in Ledger

\* C6: the ledger never loses an entry, and an entry appears only in the step
\* of a successful install of that specifier or of a positive probe for it
\* (the load of the sidecar, which creates the ledger, aside).
C6_LedgerGrowsOnlyByInstallOrProbe ==
    [][pc # "load" =>
          /\ Ledger \subseteq Ledger'
          /\ \A s \in Ledger' \ Ledger :
                /\ lastOp'.pkg = s
                /\ \/ lastOp'.op = "install" /\ lastOp'.res = "ok"
                   \/ lastOp'.op = "probe" /\ lastOp'.res = "positive"]_vars

\* A positive probe has just put its specifier into a ledger that also holds a
\* specifier installed during the run.
C6_Witness ==
    /\ lastOp.op = "probe"
    /\ lastOp.res = "positive"
    /\ lastOp.pkg \in checkedPackages
    /\ okInstalls # {}
    /\ lastOp.pkg \notin okInstalls

\* C7: when the reconciliation loop of a document has ended, no specifier of
\* the to-install list is in the ledger.
C7_ToInstallDisjointFromLedger ==
    Reconciled => Range(packagesToInstall) \cap Ledger = {}

\* The loop has ended with a non-empty to-install list and with a required
\* specifier that is in the ledger.
C7_Witness ==
    /\ Reconciled
    /\ packagesToInstall # <<>>
    /\ Range(requiredPackages) \cap Ledger # {}

\* the specifiers written in the sidecar file
SidecarEntries == {sidecar.text[i] : i \in 1..Len(sidecar.text)} \ {NL}

Affirmative == {"y", "Y", "yes"}
PromptStep == \E s \in Specifiers : promptCount'[s] > promptCount[s]
InstallStep == \E s \in Specifiers : installCount'[s] > installCount[s]

\* C8: under --confirm, a prompt answered with anything that is not an
\* affirmative token starts no install and leaves the ledger as it was; the
\* skip of that specifier is reported and the loop moves to the next one.  A
\* specifier is prompted at most once per file, and an install only ever
\* follows an accepted prompt for the same specifier.
C8_DeclinedPromptSkips ==
    /\ [][(PromptStep /\ lastOp'.res \notin Affirmative) =>
              /\ Ledger' = Ledger
              /\ okInstalls' = okInstalls
              /\ installCount' = installCount
              /\ lastLog' = Log("skipped", lastOp'.pkg)
              /\ pIdx' = pIdx + 1
              /\ pc' = "installLoop"]_vars
    /\ [][(confirm /\ InstallStep) =>
              /\ lastOp.op = "prompt"
              /\ lastOp.res \in Affirmative
              /\ lastOp.pkg = lastOp'.pkg]_vars
    /\ [](\A s \in Specifiers : promptCount[s] <= 1)

\* One specifier was declined and a later one of the same file was installed.
C8_Witness ==
    /\ confirm
    /\ pc = "installLoop"
    /\ Returned
    /\ \E i, j \in 1..Len(packagesToInstall) :
          /\ i < j
          /\ promptCount[packagesToInstall[i]] = 1
          /\ installCount[packagesToInstall[i]] = 0
          /\ installCount[packagesToInstall[j]] = 1

\* C9: under --confirm, after the answer "yes" to "Install package S?
\* (yes/no)" the install of S is the next operation.
C9_YesStartsInstall ==
    (lastOp.op = "prompt" /\ lastOp.res = "yes") => pc = "install"

\* C10 as stated: in persisted mode, whenever the program is not in the middle
\* of a save, the sidecar holds every specifier installed so far in the run.
C10_SidecarHoldsEveryInstall ==
    (persisted /\ pc # "save") => okInstalls \subseteq SidecarEntries

\* C10 (amended): in persisted mode the step after a successful install is the
\* write of the whole ledger, so a write has been attempted before any later
\* prompt, probe or install; and whenever the most recent write succeeded the
\* sidecar holds exactly the ledger, hence every specifier installed so far.
C10_SaveFollowsEveryInstall ==
    persisted =>
        /\ (lastOp.op = "install" /\ lastOp.res = "ok") => pc = "save"
        /\ (pc # "save" /\ okInstalls # {}) => lastSave # "none"
        /\ (pc # "save" /\ lastSave = "ok") =>
              /\ SidecarEntries = Range(installedPackages)
              /\ okInstalls \subseteq SidecarEntries

\* Two specifiers were installed and saved, and a later file is about to be
\* reconciled.
C10_Witness ==
    /\ persisted
    /\ lastSave = "ok"
    /\ Cardinality(okInstalls) = 2
    /\ Reconciling

InstallInFlight == InstallRunning

C12_SaveThenLoadIsIdentity ==
    (lastOp.op = "load" /\ lastSave = "ok") =>
        /\ Range(installedPackages) = ledgerAtStart
        /\ Len(installedPackages) = Cardinality(ledgerAtStart)

\* The empty ledger has been written and read back.
C12_Witness ==
    /\ lastOp.op = "load"
    /\ lastSave = "ok"
    /\ ledgerAtStart = {}
    /\ sidecar.exists

\* C13: when a document's to-install list is empty, the call returns with the
\* no-op message as its last report, having prompted for nothing and
\* installed nothing; the ledger holds what reconciliation left in it (its
\* content at the start of the file plus the specifiers probed), and no
\* per-package success was reported.
C13_EmptyListIsNoOp ==
    (Returned /\ Len(packagesToInstall) = 0) =>
        /\ lastLog = Log("noop", NoPkg)
        /\ lastLog.kind # "installed"
        /\ \A s \in Specifiers : promptCount[s] = 0 /\ installCount[s] = 0
        /\ lastOp.op \notin {"prompt", "install", "save"}
        /\ okInstalls = okEarlier
        /\ Ledger \subseteq (ledgerAtStart \cup {s \in Specifiers : probeCount[s] > 0})

\* A document whose only package probed as installed: nothing to install.
C13_Witness ==
    /\ Returned
    /\ Len(packagesToInstall) = 0
    /\ requiredPackages # <<>>
    /\ \E s \in Specifiers : probeCount[s] > 0

\* C14: a run over a directory that was listed and holds eligible files, once
\* it has ended, has reported overall completion as its last message.
C14_RunReportsCompletion ==
    (DirectoryRun /\ Terminated /\ jsFiles # <<>>) => lastLog.kind = "finished"

ProbeStep == \E s \in Specifiers : probeCount'[s] > probeCount[s]

\* C15: a probe that ends with a non-zero exit counts as "not installed": the
\* step leaves the ledger as it was, appends the probed specifier to the
\* to-install list, and reconciliation goes on with the next specifier (no
\* error leaves isPackageInstalled).
C15_FailedProbeMeansNotInstalled ==
    [][(ProbeStep /\ lastOp'.res = "error") =>
          /\ lastOp'.op = "probe"
          /\ lastOp'.pkg = CurrentRequired
          /\ Ledger' = Ledger
          /\ installedPackages' = installedPackages
          /\ checkedPackages' = checkedPackages
          /\ packagesToInstall' = Append(packagesToInstall, CurrentRequired)
          /\ pc' = "reconcile"
          /\ rIdx' = rIdx + 1]_vars

\* The probe of a package that npm has installed failed, and the package was
\* queued.
C15_Witness ==
    /\ pc = "reconcile"
    /\ lastOp.op = "probe"
    /\ lastOp.res = "error"
    /\ lastOp.pkg \in npmInstalled
    /\ packagesToInstall # <<>>
    /\ packagesToInstall[Len(packagesToInstall)] = lastOp.pkg
    /\ lastOp.pkg \notin Ledger

\* C16: a specifier whose probe has come back positive in this run is not
\* probed again before the run ends.
C16_PositiveProbeNeverRepeated ==
    [][\A s \in positiveProbes : ~(probeCount'[s] > probeCount[s])]_vars

\* C17: when both a file and a directory are given, the directory is never
\* listed and only the one file goes through the pipeline.
C17_FileOverridesDirectory ==
    (argFile /\ argDir) =>
        /\ pc \notin {"readdir", "nextFile"}
        /\ lastOp.op # "readdir"
        /\ Len(jsFiles) <= 1
        /\ fileIdx = 1
        /\ processed \subseteq {1}
        /\ lastLog.kind # "finishedFile"

\* A run given both options has ended after installing for its single file.
C17_Witness ==
    /\ argFile
    /\ argDir
    /\ pc = "done"
    /\ processed = {1}
    /\ okInstalls # {}

\* C18: at most one external operation is in flight and at most one file is
\* being processed at any time: the program waits for a running command, no
\* probe, prompt or other command starts before it has settled, and a file is
\* only started when no other file is open.
C18_StrictlySequential ==
    /\ [](/\ Cardinality(running) <= 1
          /\ Cardinality(openFiles) <= 1
          /\ (running # {}) =>
                (/\ pc \in {"installing", "save"}
                 /\ running \subseteq {Running("install", CurrentInstall),
                                       Running("save", CurrentInstall)}
                 /\ openFiles = {fileIdx}))
    /\ [][/\ (running # {}) =>
                (/\ running \cap running' = {}
                 /\ ~ProbeStep
                 /\ ~PromptStep)
          /\ (openFiles' # openFiles /\ openFiles' # {}) => (openFiles = {})]_vars

\* The second install of a file is running, the first has settled.
C18_Witness ==
    /\ pc = "installing"
    /\ pIdx = 2
    /\ running = {Running("install", CurrentInstall)}
    /\ installCount[packagesToInstall[1]] = 1
    /\ fileIdx = 2
    /\ openFiles = {2}

NoDuplicates(s) == \A i, j \in 1..Len(s) : i # j => s[i] # s[j]

\* sub lists some of the elements of full, each once, in the order of full.
OrderedSublist(sub, full) ==
    /\ NoDuplicates(sub)
    /\ \A i \in 1..Len(sub) : \E a \in 1..Len(full) : full[a] = sub[i]
    /\ \A i, j \in 1..Len(sub) :
          i < j => \E a, b \in 1..Len(full) : a < b /\ full[a] = sub[i] /\ full[b] = sub[j]

\* The specifier at position i of the to-install list has had its turn.
Handled(i) ==
    IF confirm THEN promptCount[packagesToInstall[i]] = 1
               ELSE installCount[packagesToInstall[i]] = 1

\* C19: the to-install list is a duplicate-free sublist of the extractor's
\* output in the extractor's order; the loop takes its entries in that order
\* (the ones before the current position have had their turn, the ones after
\* it have seen neither prompt nor install), and no specifier is prompted for
\* or installed more than once in a document.
C19_ToInstallKeepsExtractionOrder ==
    /\ NoDuplicates(requiredPackages)
    /\ OrderedSublist(packagesToInstall, SubSeq(requiredPackages, 1, rIdx - 1))
    /\ \A s \in Specifiers : promptCount[s] <= 1 /\ installCount[s] <= 1
    /\ pc \in {"installLoop", "install", "installing", "save"} =>
          \A i \in 1..Len(packagesToInstall) :
              /\ i < pIdx => Handled(i)
              /\ i > pIdx => /\ promptCount[packagesToInstall[i]] = 0
                             /\ installCount[packagesToInstall[i]] = 0

\* Two packages were queued in the order of the document, which is not the
\* sorted order, and both installs were attempted.
C19_Witness ==
    /\ Returned
    /\ requiredPackages = <<"chalk", "./local.js">>
    /\ packagesToInstall = <<"chalk", "./local.js">>
    /\ installCount["chalk"] = 1
    /\ installCount["./local.js"] = 1

\* s was extracted from an earlier file of this run, was not in the sidecar
\* when the run began and was not installed when the current file started:
\* in that earlier file it was queued and then declined or its install failed.
LeftOpenEarlier(s) ==
    /\ fileIdx > 1
    /\ s \in referencedEarlier
    /\ s \notin sidecarAtStart
    /\ s \notin npmInstalled \/ s \in (okInstalls \ okEarlier)

\* C20: a specifier that was declined or whose install failed in an earlier
\* file is not remembered: when a later file that references it has been
\* worked through, it has been probed again, queued again and, under
\* --confirm, prompted for again (without --confirm, installed again).
C20_DeclinedOrFailedIsAskedAgain ==
    Returned =>
        \A s \in Range(requiredPackages) :
            LeftOpenEarlier(s) =>
                /\ s \notin ledgerAtStart
                /\ probeCount[s] = 1
                /\ s \in Range(packagesToInstall)
                /\ IF confirm THEN promptCount[s] = 1 ELSE installCount[s] = 1

\* In the second file the user was asked again about a package left open by
\* the first file, and declined again.
C20_Witness ==
    /\ Returned
    /\ confirm
    /\ \E s \in Range(requiredPackages) :
          /\ LeftOpenEarlier(s)
          /\ s \notin npmInstalled
          /\ probeCount[s] = 1
          /\ promptCount[s] = 1
          /\ installCount[s] = 0

\* The sidecar write that follows a successful install is rejected.
SaveFailStep == pc = "save" /\ lastOp'.op = "save" /\ lastOp'.res = "fail"

\* C21 as stated: when the sidecar write after a successful install of S
\* fails, S stays in the in-memory ledger, the failure is reported as a failed
\* install of S, the text of the sidecar is what it was before the write, and
\* the loop goes on with the next specifier.
C21_FailedSaveLeavesSidecarAsItWas ==
    [][SaveFailStep =>
          /\ CurrentInstall \in Ledger'
          /\ lastLog' = Log("failed", CurrentInstall)
          /\ sidecar'.text = sidecar.text
          /\ pc' = "installLoop"
          /\ pIdx' = pIdx + 1]_vars

\* C21 (amended): when the sidecar write after a successful install of S
\* fails, the ledger is left as it was with S in it, the failure is reported
\* as a failed install of S although npm has installed it, and the loop goes
\* on with the next specifier; the sidecar then holds its previous text or no
\* text at all (the write truncated it), and S is written in it only if it was
\* there before the write.  No specifier installed in this run is probed or
\* installed again in this run, whether or not its write succeeded.
C21_FailedSaveKeepsLedgerEntry ==
    /\ [][SaveFailStep =>
            /\ CurrentInstall \in Ledger'
            /\ installedPackages' = installedPackages
            /\ CurrentInstall \in npmInstalled
            /\ lastLog' = Log("failed", CurrentInstall)
            /\ sidecar'.text \in {sidecar.text, <<>>}
            /\ (CurrentInstall \in SidecarEntries') => (CurrentInstall \in SidecarEntries)
            /\ pc' = "installLoop"
            /\ pIdx' = pIdx + 1]_vars
    /\ [][persisted =>
            \A s \in okInstalls :
                /\ ~(probeCount'[s] > probeCount[s])
                /\ ~(installCount'[s] > installCount[s])]_vars

\* The write for a package installed in the first file failed; the second
\* file references the package and has been worked through without a probe
\* or an install of it, while the sidecar still lacks it.
C21_Witness ==
    /\ persisted
    /\ fileIdx = 2
    /\ Returned
    /\ lastSave = "fail"
    /\ \E s \in Range(requiredPackages) :
          /\ s \in okEarlier
          /\ s \in Ledger
          /\ s \notin SidecarEntries
          /\ probeCount[s] = 0
          /\ installCount[s] = 0
====
